---- MODULE Spec2Model ----
(***************************************************************************)
(* Model of the RAG backend: the POST /query/ orchestrator (main.py), the  *)
(* in-memory similarity search and the vector-store gateway (search.py),   *)
(* the keyword classifier (classifier.py) and the LLM gateway (llm.py).    *)
(***************************************************************************)
EXTENDS Integers, Sequences, FiniteSets, TLC

(***************************************************************************)
(* Bounds of the model                                                     *)
(***************************************************************************)
\* question vectors are the integer points <<x, y>>, x in 0..MaxCoord, y in -1..0
MaxCoord == 2

(***************************************************************************)
(* Python values.  Every value is a tagged record so that values of        *)
(* different Python types can be compared.                                 *)
(***************************************************************************)
PyNone == [t |-> "none"]
PyStr(s) == [t |-> "str", s |-> s]
PyList(items) == [t |-> "list", items |-> items]
\* a dict is a function from its keys to values
PyDict(kv) == [t |-> "dict", kv |-> kv]
\* str(x) of a value: a non-empty text that stands for the printed value
PyRepr(x) == [t |-> "str", s |-> "repr", of |-> x]

\* the empty function, the dict {}
EmptyKV == [k \in {} |-> PyNone]

IsDict(x) == x.t = "dict"
IsList(x) == x.t = "list"

\* bool(x)
Truthy(x) ==
    CASE x.t = "none" -> FALSE
      [] x.t = "str" -> x.s # ""
      [] x.t = "list" -> x.items # <<>>
      [] x.t = "dict" -> DOMAIN x.kv # {}

\* a or b
PyOr(a, b) == IF Truthy(a) THEN a ELSE b

\* key in d, for a dict d
HasKey(d, k) == k \in DOMAIN d.kv

\* d.get(k), for a dict d
Get(d, k) == IF k \in DOMAIN d.kv THEN d.kv[k] ELSE PyNone

(***************************************************************************)
(* llm.py: extraction of the answer from a response body.  The result is   *)
(* [raised, answer]: raised is TRUE when the Python code raises.           *)
(***************************************************************************)
Raised == [raised |-> TRUE, answer |-> PyNone]
Value(a) == [raised |-> FALSE, answer |-> a]

\* data["output"][0]["content"][0].get("text") inside try/except: None on any error
OutputText(data) ==
    LET o == data.kv["output"].items[1] IN
    IF ~IsDict(o) \/ ~HasKey(o, "content") THEN PyNone
    ELSE LET c == o.kv["content"] IN
         IF ~IsList(c) \/ c.items = <<>> THEN PyNone
         ELSE IF ~IsDict(c.items[1]) THEN PyNone
         ELSE Get(c.items[1], "text")

\* the generic keys without the final str(data)
GenericAnswerNoStr(data) ==
    IF ~IsDict(data) THEN Raised
    ELSE Value(PyOr(Get(data, "output"), PyOr(Get(data, "content"),
                 PyOr(Get(data, "message"), Get(data, "text")))))

\* the generic keys: data.get("output") or ... or str(data); data.get raises on a non-dict
GenericAnswer(data) ==
    IF ~IsDict(data) THEN Raised
    ELSE Value(PyOr(Get(data, "output"), PyOr(Get(data, "content"),
                 PyOr(Get(data, "message"), PyOr(Get(data, "text"), PyRepr(data))))))

\* candidates[0].get("content") or candidates[0].get("output")
CandidateAnswer(data) ==
    LET c == data.kv["candidates"].items[1] IN
    IF ~IsDict(c) THEN Raised
    ELSE Value(PyOr(Get(c, "content"), Get(c, "output")))

\* the if/elif chain over a dict body, shared by the two parsers
FirstStage(data, withStrCandidate) ==
    IF HasKey(data, "candidates") /\ IsList(data.kv["candidates"])
          /\ data.kv["candidates"].items # <<>>
       THEN CandidateAnswer(data)
    ELSE IF HasKey(data, "output") /\ IsList(data.kv["output"])
          /\ data.kv["output"].items # <<>>
       THEN Value(OutputText(data))
    ELSE IF HasKey(data, "text")
       THEN Value(Get(data, "text"))
    ELSE IF withStrCandidate /\ HasKey(data, "candidates") /\ IsList(data.kv["candidates"])
       \* str(data["candidates"][0]) on the empty list: IndexError, swallowed
       THEN IF data.kv["candidates"].items = <<>> THEN Value(PyNone)
            ELSE Value(PyRepr(data.kv["candidates"].items[1]))
    ELSE Value(PyNone)

ParseWith(data, withStrCandidate) ==
    LET first == IF IsDict(data) THEN FirstStage(data, withStrCandidate) ELSE Value(PyNone) IN
    IF first.raised THEN Raised
    ELSE IF Truthy(first.answer) THEN first
    ELSE GenericAnswer(data)

\* parser of the primary response
ParsePrimary(data) == ParseWith(data, TRUE)

\* parser of a fallback-URL response
ParseFallback(data) == ParseWith(data, FALSE)

(***************************************************************************)
(* Strings that the code searches and rewrites (URLs, questions) are       *)
(* sequences of text pieces; `in` and `replace` work piece by piece.  The  *)
(* verb ":generateContent" is the pieces ":generate", "Content", so that   *)
(* ":generate" is found inside it, as in Python.                           *)
(***************************************************************************)
\* sub in s
Contains(s, sub) ==
    \E i \in 1..(Len(s) - Len(sub) + 1) : SubSeq(s, i, i + Len(sub) - 1) = sub

\* s.replace(old, new): every non-overlapping occurrence, left to right
RECURSIVE Replace(_, _, _)
Replace(s, old, new) ==
    IF Len(s) < Len(old) THEN s
    ELSE IF SubSeq(s, 1, Len(old)) = old
         THEN new \o Replace(SubSeq(s, Len(old) + 1, Len(s)), old, new)
         ELSE <<Head(s)>> \o Replace(Tail(s), old, new)

GenerateContent == <<":generate", "Content">>
Generate == <<":generate">>
GenerateText == <<":generate", "Text">>
V1Beta == <<"/v1beta/">>
V1Beta2 == <<"/v1beta2/">>
V1 == <<"/v1/">>
GoogleApis == <<"googleapis">>

\* llm.py get_gemini_config: the default URL built from the model name
DefaultUrl ==
    <<"https://generativelanguage.", "googleapis", ".com">> \o V1Beta
        \o <<"models/gemini-2.5-flash">> \o GenerateContent

\* values of GEMINI_API_URL: unset (""), or an explicit override
UrlOverrides ==
    { <<>>,
      <<"https://generativelanguage.", "googleapis", ".com">> \o V1Beta2
          \o <<"models/m">> \o Generate,
      <<"https://generativelanguage.", "googleapis", ".com">> \o V1
          \o <<"models/m">> \o GenerateText,
      <<"https://aiplatform.", "googleapis", ".com", "/v2/", "models/m">> \o GenerateContent,
      <<"http://localhost:8080", "/api/", "chat">> }

\* llm.py get_gemini_config: (api_key, bearer, api_url); a variable that is unset reads as ""
get_gemini_config(env) ==
    [api_key |-> env.GEMINI_API_KEY,
     bearer |-> env.GEMINI_BEARER_TOKEN,
     api_url |-> IF env.GEMINI_API_URL = <<>> THEN DefaultUrl ELSE env.GEMINI_API_URL]

\* llm.py is_gemini_configured
is_gemini_configured(env) ==
    LET cfg == get_gemini_config(env) IN cfg.api_key # "" \/ cfg.bearer # ""

\* the request bodies, named by their shape
V1CandidateBodies ==
    << "prompt.text", "prompt.content", "input", "input.text", "instances.input",
       "instances.input.text", "messages", "instances.content", "text" >>

GenericCandidateBodies == << "model+prompt.text", "input", "instances.input" >>

\* llm.py 90-123: the candidate list, or "unbound" when the name is never assigned
CandidateBodies(url) ==
    IF Contains(url, GoogleApis)
    THEN IF Contains(url, V1Beta) \/ Contains(url, V1Beta2) \/ Contains(url, V1)
         THEN [bound |-> TRUE, bodies |-> V1CandidateBodies]
         ELSE [bound |-> TRUE, bodies |-> GenericCandidateBodies]
    ELSE [bound |-> FALSE, bodies |-> <<>>]

\* llm.py 85-122: the Authorization header and the key query parameter ("" when absent)
Headers(url, cfg) ==
    IF Contains(url, GoogleApis)
    THEN [Authorization |-> cfg.bearer, key |-> cfg.api_key]
    ELSE [Authorization |-> cfg.api_key, key |-> ""]

\* llm.py 180-198: the fallback URLs, in order
FallbackAttempts(url) ==
    (IF Contains(url, GenerateContent)
     THEN << Replace(url, GenerateContent, Generate),
             Replace(url, GenerateContent, GenerateText) >> ELSE <<>>)
    \o (IF Contains(url, Generate)
        THEN << Replace(url, Generate, GenerateContent),
                Replace(url, Generate, GenerateText) >> ELSE <<>>)
    \o (IF Contains(url, GenerateText)
        THEN << Replace(url, GenerateText, GenerateContent),
                Replace(url, GenerateText, Generate) >> ELSE <<>>)
    \o (IF Contains(url, V1Beta) THEN << Replace(url, V1Beta, V1Beta2) >> ELSE <<>>)
    \o (IF Contains(url, V1Beta2) THEN << Replace(url, V1Beta2, V1Beta) >> ELSE <<>>)
    \o (IF Contains(url, V1Beta) \/ Contains(url, V1Beta2)
        THEN << IF Contains(url, V1Beta) THEN Replace(url, V1Beta, V1)
                ELSE Replace(url, V1Beta2, V1) >> ELSE <<>>)

(***************************************************************************)
(* classifier.py                                                           *)
(***************************************************************************)
LEGAL_KEYWORDS ==
    { "law", "case", "court", "act", "section", "judgment", "verdict", "appeal",
      "sentence", "advocate", "bail", "petition", "hearing", "order", "statute", "liable" }

\* str.lower() of one piece of text
LowerPiece(w) ==
    CASE w = "Court" -> "court"
      [] w = "BAIL" -> "bail"
      [] w = "Pavan" -> "pavan"
      [] w = "Gemini" -> "gemini"
      [] w = "GEMINI" -> "gemini"
      [] w = "OpenAI" -> "openai"
      [] OTHER -> w

Lower(s) == [i \in 1..Len(s) |-> LowerPiece(s[i])]

\* classifier.py is_legal_question
is_legal_question(text) ==
    IF text = <<>> THEN FALSE
    ELSE \E i \in 1..Len(Lower(text)) : Lower(text)[i] \in LEGAL_KEYWORDS

\* str.strip(): leading and trailing whitespace pieces removed
RECURSIVE LStrip(_)
LStrip(s) == IF s # <<>> /\ Head(s) = " " THEN LStrip(Tail(s)) ELSE s

RECURSIVE RStrip(_)
RStrip(s) == IF s # <<>> /\ s[Len(s)] = " " THEN RStrip(SubSeq(s, 1, Len(s) - 1)) ELSE s

\* the question used as sent
StripNothing(s) == s

\* str.strip()
Strip(s) == RStrip(LStrip(s))

(***************************************************************************)
(* search.py: cosine similarity over integer vectors.  A score is kept as  *)
(* the exact pair (dot product, product of the squared norms); comparisons *)
(* are done on squares, so no rounding is involved.                        *)
(***************************************************************************)
NumFacts == 3
HighThresholdPct == 70
DefaultThresholdPct == 45

NoVector == <<>>

Dot(a, b) == a[1] * b[1] + a[2] * b[2]

\* sims[i] = (v @ q) / denom, denom = |q| * |v|, or 1e-12 when that is zero
Sim(v, q) == [dot |-> Dot(v, q), n2 |-> Dot(v, v) * Dot(q, q)]

\* a < b for two scores; a zero denominator makes the score 0 (0 / 1e-12)
ScoreLess(a, b) ==
    LET da == IF a.n2 = 0 THEN 0 ELSE a.dot
        db == IF b.n2 = 0 THEN 0 ELSE b.dot
        na == IF a.n2 = 0 THEN 1 ELSE a.n2
        nb == IF b.n2 = 0 THEN 1 ELSE b.n2
    IN  IF da < 0 /\ db >= 0 THEN TRUE
        ELSE IF da >= 0 /\ db < 0 THEN FALSE
        ELSE IF da >= 0 THEN da * da * nb < db * db * na
        ELSE da * da * nb > db * db * na

\* score >= pct / 100; a zero denominator makes the score 0
ScoreAtLeast(a, pct) ==
    IF a.n2 = 0 THEN pct <= 0
    ELSE IF pct > 0 THEN a.dot > 0 /\ a.dot * a.dot * 100 * 100 >= pct * pct * a.n2
    ELSE a.dot >= 0 \/ a.dot * a.dot * 100 * 100 <= pct * pct * a.n2

\* the loop variable not used: every fact gets the vector of the first fact's text
WithFirstVector(facts, encode) ==
    [i \in 1..Len(facts) |-> [facts[i] EXCEPT !.vector = encode[facts[1].text]]]

\* search.py 82-84: vectors that are missing are computed and stored
WithVectors(facts, encode) ==
    [i \in 1..Len(facts) |->
        IF facts[i].vector = NoVector
        THEN [facts[i] EXCEPT !.vector = encode[facts[i].text]]
        ELSE facts[i]]

\* the last index holding the maximum
ArgMaxLast(facts, q) ==
    CHOOSE i \in 1..Len(facts) :
        /\ \A j \in 1..Len(facts) : ~ScoreLess(Sim(facts[i].vector, q), Sim(facts[j].vector, q))
        /\ \A j \in (i + 1)..Len(facts) :
              ScoreLess(Sim(facts[j].vector, q), Sim(facts[i].vector, q))

\* np.argmax: the first index holding the maximum
ArgMax(facts, q) ==
    CHOOSE i \in 1..Len(facts) :
        /\ \A j \in 1..Len(facts) : ~ScoreLess(Sim(facts[i].vector, q), Sim(facts[j].vector, q))
        /\ \A j \in 1..(i - 1) : ScoreLess(Sim(facts[j].vector, q), Sim(facts[i].vector, q))

\* None, as the two searches return it
NoMatch == [raised |-> FALSE, found |-> FALSE, text |-> "", id |-> 0,
            score |-> [dot |-> 0, n2 |-> 0]]

\* an exception leaving a function
RaisedMatch == [NoMatch EXCEPT !.raised = TRUE]

\* a dict with text, id and score
Match(text, id, score) ==
    [raised |-> FALSE, found |-> TRUE, text |-> text, id |-> id, score |-> score]

\* line 94 with <= in place of >=
LocalSearchReversed(facts, q, pct) ==
    IF facts = <<>> THEN RaisedMatch
    ELSE LET best == ArgMax(facts, q)
             score == Sim(facts[best].vector, q)
         IN  IF ScoreAtLeast([dot |-> 0 - score.dot, n2 |-> score.n2], 0 - pct)
             THEN Match(facts[best].text, facts[best].id, score)
             ELSE NoMatch

\* line 94 with > in place of >=
LocalSearchStrict(facts, q, pct) ==
    IF facts = <<>> THEN RaisedMatch
    ELSE LET best == ArgMax(facts, q)
             score == Sim(facts[best].vector, q)
         IN  IF /\ ScoreAtLeast(score, pct)
                /\ ~ScoreAtLeast([dot |-> 0 - score.dot, n2 |-> score.n2], 0 - pct)
             THEN Match(facts[best].text, facts[best].id, score)
             ELSE NoMatch

\* search.py 81-96, the body of the try: np.linalg.norm(vectors, axis=1) raises on an
\* empty corpus; the facts' vectors are present
LocalSearchBody(facts, q, pct) ==
    IF facts = <<>> THEN RaisedMatch
    ELSE LET best == ArgMax(facts, q)
             score == Sim(facts[best].vector, q)
         IN  IF ScoreAtLeast(score, pct)
             THEN Match(facts[best].text, facts[best].id, score)
             ELSE NoMatch

\* search.py 97-99 and 71-73: except Exception: log and return None
ReturnNoneOnException(res) == IF res.raised THEN NoMatch ELSE res

\* search.py local_similarity_search
local_similarity_search(facts, q, pct) ==
    ReturnNoneOnException(LocalSearchBody(facts, q, pct))

\* the payload of a point: no payload attribute, a payload that is not a dict, a dict
\* without "text", a dict with "text"
PayloadKinds == {"missing", "not-dict", "dict", "dict-text"}

\* the points the store may return for the corpus, with a score in hundredths
QdrantPoints(facts) ==
    { [payload |-> k, text |-> IF k = "dict-text" THEN facts[i].text ELSE "",
       id |-> facts[i].id, score |-> sc] :
         k \in PayloadKinds, i \in 1..Len(facts), sc \in {5, 95} }

\* what client.query_points does: raises, returns None, returns an object without a
\* result attribute, or returns an object whose result is a list of at most two points
QdrantOutcomes(facts) ==
    { [kind |-> k, result |-> <<>>] : k \in {"raise", "none", "no-result"} }
    \cup { [kind |-> "result", result |-> <<>>] }
    \cup { [kind |-> "result", result |-> << p >>] : p \in QdrantPoints(facts) }
    \cup { [kind |-> "result", result |-> << p, p2 >>] :
             p \in QdrantPoints(facts), p2 \in QdrantPoints(facts) }

\* search.py 62-70 with the handler left out
QueryBody(res) ==
    IF res.kind = "raise" THEN RaisedMatch
    ELSE IF res.kind \in {"none", "no-result"} \/ Len(res.result) = 0 THEN NoMatch
    ELSE LET top == res.result[1] IN
         IF top.payload = "dict-text"
         THEN Match(top.text, top.id, [dot |-> top.score, n2 |-> 100 * 100])
         ELSE NoMatch

\* the default threshold of the in-memory search applied to the top point too
query_qdrant_thresholded(res) ==
    LET out == ReturnNoneOnException(QueryBody(res)) IN
    IF out.found /\ ~ScoreAtLeast(out.score, DefaultThresholdPct) THEN NoMatch ELSE out

\* the handler missing: an exception of the client leaves the function
query_qdrant_unguarded(res) == QueryBody(res)

\* search.py query_qdrant
query_qdrant(res) == ReturnNoneOnException(QueryBody(res))

(***************************************************************************)
(* The process                                                             *)
(***************************************************************************)
VARIABLES
    FACTS,                      \* main.py FACTS: the corpus, id, text and vector
    qdrant_available,           \* main.py qdrant_available
    FALLBACK_TO_LLM_FOR_LEGAL,  \* main.py FALLBACK_TO_LLM_FOR_LEGAL, read at import
    encode,                     \* the embedding provider on the fact texts
    pc,                         \* where the process is
    question,                   \* query_facts: the stripped question
    question_vec,               \* query_facts: its embedding
    response,                   \* what the caller of POST /query/ receives
    calls,                      \* the collaborators the current request called, in order
    env,                        \* the environment call_llm read
    provider,                   \* call_llm: provider, lower-cased
    candidate_bodies,           \* call_llm: the candidate list
    fallback_attempts,          \* call_llm: the fallback URLs
    idx,                        \* call_llm: position in the list being iterated
    body,                       \* call_llm: the body last sent
    r,                          \* call_llm: outcome of the HTTP request last sent (r, r2)
    http,                       \* the HTTP requests call_llm sent, in order
    llm_res,                    \* what call_llm returned
    req,                        \* the body of the request being handled
    health_response,            \* what the caller of GET /health receives
    applied,                    \* a function applied on its own: its arguments and result
    handlers,                   \* the requests in flight together, each with its locals
    running                     \* the handler that holds the event loop, if any

vars == << FACTS, qdrant_available, FALLBACK_TO_LLM_FOR_LEGAL, encode, pc, question,
           question_vec, response, calls, env, provider, candidate_bodies,
           fallback_attempts, idx, body, r, http, llm_res, req, health_response, applied,
           handlers, running >>

FactTexts == << "Om has 2 apples", "Pavan has 82 apples", "Sahil has 3 apples" >>

\* the vectors the embedding provider may give a fact
FactVecs == { <<1, 0>>, <<2, 1>> }

\* the vectors the embedding provider may give a question
QVecs == { <<x, y>> : x \in 0..MaxCoord, y \in -1..0 }

\* the question strings a client sends
Questions ==
    { <<>>, <<" ", " ">>, <<"Pavan", " ", "apples">>, <<" ", "BAIL", " ", "act", " ">> }

\* values of LLM_PROVIDER
Providers == { <<"gemini">>, <<"Gemini">>, <<"OpenAI">> }

\* the environment at the time of a call_llm
Envs ==
    [ GEMINI_API_KEY : {"", "key"}, GEMINI_BEARER_TOKEN : {"", "token"},
      GEMINI_API_URL : UrlOverrides ]

\* bodies of the responses of the LLM endpoint
JsonBodies ==
    { PyList(<<>>),
      PyStr("plain"),
      PyDict([candidates |-> PyList(<< PyStr("x") >>)]),
      PyDict([candidates |-> PyList(<< PyDict([content |-> PyStr("A")]) >>)]),
      PyDict([candidates |-> PyList(<<
                 PyDict([content |-> PyDict([parts |-> PyList(<< PyStr("A") >>)])]) >>)]),
      PyDict([candidates |-> PyList(<< PyDict(EmptyKV) >>), text |-> PyStr("T")]),
      PyDict(EmptyKV) }

\* what one requests.post can do: a response with a status, or a transport exception
HttpOutcomes ==
    { [status |-> st, json |-> FALSE, data |-> PyNone] : st \in {"http_error", "timeout"} }
    \cup { [status |-> "ok", json |-> FALSE, data |-> PyNone] }
    \cup { [status |-> "ok", json |-> TRUE, data |-> d] : d \in JsonBodies }

SdkOutcomes == { "missing", "raises", "empty", "text" }

NoResponse == [status |-> 0, answer |-> PyNone, source |-> [kind |-> "", id |-> 0], mode |-> ""]
\* no request sent yet (r = None)
NoResponseYet == [status |-> "", json |-> FALSE, data |-> PyNone]
NoEnv == [GEMINI_API_KEY |-> "", GEMINI_BEARER_TOKEN |-> "", GEMINI_API_URL |-> <<>>]
NoLlmRes == [raised |-> FALSE, answer |-> PyNone, source |-> "", mode |-> ""]
NoRequest == [question |-> <<>>, present |-> FALSE]
NoHealth == [status |-> ""]
NotApplied == [fn |-> ""]
NoHandlers == <<>>
NoHandler == ""

Source(kind, id) == [kind |-> kind, id |-> id]

\* a 200 with the envelope
Envelope(answer, source, mode) ==
    [status |-> 200, answer |-> answer, source |-> source, mode |-> mode]

Init ==
    /\ FACTS = [i \in 1..NumFacts |-> [id |-> i, text |-> FactTexts[i], vector |-> NoVector]]
    /\ qdrant_available = TRUE
    /\ FALLBACK_TO_LLM_FOR_LEGAL \in BOOLEAN
    /\ encode \in [{FactTexts[i] : i \in 1..NumFacts} -> FactVecs]
    /\ pc = "boot"
    /\ question = <<>>
    /\ question_vec = NoVector
    /\ response = NoResponse
    /\ calls = <<>>
    /\ env = NoEnv
    /\ provider = <<>>
    /\ candidate_bodies = <<>>
    /\ fallback_attempts = <<>>
    /\ idx = 0
    /\ body = ""
    /\ r = NoResponseYet
    /\ http = <<>>
    /\ llm_res = NoLlmRes
    /\ req = NoRequest
    /\ health_response = NoHealth
    /\ applied = NotApplied
    /\ handlers = NoHandlers
    /\ running = NoHandler

llm_vars == << env, provider, candidate_bodies, fallback_attempts, idx, body, r,
               http, llm_res >>

\* main.py startup_event: the vectors are prepared, then the collection is created and
\* filled; if the vector-store client raises, the flag is cleared
startup_event ==
    /\ pc = "boot"
    /\ UNCHANGED << req, health_response, applied,
                    handlers, running >>
    /\ FACTS' = WithVectors(FACTS, encode)
    /\ \E ok \in BOOLEAN : qdrant_available' = ok
    /\ pc' = "idle"
    /\ UNCHANGED << FALLBACK_TO_LLM_FOR_LEGAL, encode, question, question_vec, response,
                    calls >>
    /\ UNCHANGED llm_vars

(***************************************************************************)
(* main.py health                                                          *)
(***************************************************************************)
\* lines 206-211: the dict returned; gemini_configured is bool(GEMINI_API_KEY)
health(e, available) ==
    [status |-> "ok",
     gemini_configured |-> e.GEMINI_API_KEY # "",
     qdrant_available |-> available]

\* GET /health, with the environment as it is at the time of the call
Health ==
    /\ pc = "idle"
    /\ \E e \in Envs :
          /\ env' = e
          /\ health_response' = health(e, qdrant_available)
    /\ pc' = "health"
    /\ UNCHANGED << FACTS, qdrant_available, FALLBACK_TO_LLM_FOR_LEGAL, encode, question,
                    question_vec, response, calls, req, applied,
                    handlers, running >>
    /\ UNCHANGED << provider, candidate_bodies, fallback_attempts, idx, body, r, http,
                    llm_res >>

\* the response is sent
HealthRespond ==
    /\ pc = "health"
    /\ pc' = "idle"
    /\ env' = NoEnv
    /\ health_response' = NoHealth
    /\ UNCHANGED << FACTS, qdrant_available, FALLBACK_TO_LLM_FOR_LEGAL, encode, question,
                    question_vec, response, calls, req, applied,
                    handlers, running >>
    /\ UNCHANGED << provider, candidate_bodies, fallback_attempts, idx, body, r, http,
                    llm_res >>

(***************************************************************************)
(* main.py query_facts                                                     *)
(***************************************************************************)
Done(resp) == /\ response' = resp
              /\ pc' = "done"

\* lines 144-149: strip and validate the question, then embed it
Receive ==
    /\ pc = "idle"
    /\ UNCHANGED << health_response, applied,
                    handlers, running >>
    /\ \E q \in Questions, v \in QVecs :
          /\ req' = [question |-> q, present |-> TRUE]
          /\ question' = Strip(q)
          /\ IF Strip(q) = <<>>
             THEN /\ Done([NoResponse EXCEPT !.status = 400])
                  /\ UNCHANGED << question_vec, calls >>
             ELSE /\ question_vec' = v
                  /\ calls' = << "embed" >>
                  /\ pc' = "search70"
                  /\ UNCHANGED response
    /\ UNCHANGED << FACTS, qdrant_available, FALLBACK_TO_LLM_FOR_LEGAL, encode >>
    /\ UNCHANGED llm_vars

\* lines 152-154: the high-confidence search over the corpus
LocalShortCircuit ==
    /\ pc = "search70"
    /\ UNCHANGED << req, health_response, applied,
                    handlers, running >>
    /\ FACTS' = WithVectors(FACTS, encode)
    /\ calls' = Append(calls, "search70")
    /\ LET local_best == local_similarity_search(FACTS', question_vec, HighThresholdPct) IN
          IF local_best.found
          THEN Done(Envelope(PyStr(local_best.text),
                             Source("in-memory:fact-id=", local_best.id), "retrieved"))
          ELSE /\ pc' = "classify"
               /\ UNCHANGED response
    /\ UNCHANGED << qdrant_available, FALLBACK_TO_LLM_FOR_LEGAL, encode, question,
                    question_vec >>
    /\ UNCHANGED llm_vars

\* the classifier not consulted before the store: every question queries it
AfterClassifyAnyQuestion(legal, available) ==
    IF available THEN "qdrant"
    ELSE IF legal THEN "search45"
    ELSE "llm"

\* the availability flag not consulted: a legal question always queries the store
AfterClassifyAlwaysQdrant(legal, available) ==
    IF legal THEN "qdrant" ELSE "llm"

\* lines 158-160 and 176-178: where the handler goes after the classifier
AfterClassify(legal, available) ==
    IF legal
    THEN (IF available THEN "qdrant" ELSE "search45")
    ELSE "llm"

\* lines 158-160 and 176-178: the branch on the classifier and on the flag
Classify ==
    /\ pc = "classify"
    /\ UNCHANGED << req, health_response, applied,
                    handlers, running >>
    /\ calls' = Append(calls, "classify")
    /\ pc' = AfterClassify(is_legal_question(question), qdrant_available)
    /\ UNCHANGED << FACTS, qdrant_available, FALLBACK_TO_LLM_FOR_LEGAL, encode, question,
                    question_vec, response >>
    /\ UNCHANGED llm_vars

\* what a vector-store query leaves in the request's record: the call, and the error
\* logged at search.py 72 when the client raised
QdrantEvents(res) ==
    IF res.kind = "raise" THEN << "qdrant", "qdrant-error" >> ELSE << "qdrant" >>

\* lines 162-164: the vector-store query
QueryQdrant ==
    /\ pc = "qdrant"
    /\ UNCHANGED << req, health_response, applied,
                    handlers, running >>
    /\ \E res \in QdrantOutcomes(FACTS) :
          LET results == query_qdrant(res) IN
          /\ calls' = calls \o QdrantEvents(res)
          /\ IF results.found
             THEN Done(Envelope(PyStr(results.text),
                                Source("qdrant:apples id=", results.id), "legal"))
             ELSE /\ pc' = "search45"
                  /\ UNCHANGED response
    /\ UNCHANGED << FACTS, qdrant_available, FALLBACK_TO_LLM_FOR_LEGAL, encode, question,
                    question_vec >>
    /\ UNCHANGED llm_vars

\* the flag not consulted: every miss goes to call_llm
LegalFallbackNoFlag(best, flag) ==
    IF best.found
    THEN Envelope(PyStr(best.text), Source("in-memory:fact-id=", best.id), "legal")
    ELSE NoResponse

\* lines 169-175: after the search at the default threshold: the envelope to return,
\* or status 0 when call_llm is to be invoked
LegalFallbackResult(best, flag) ==
    IF best.found
    THEN Envelope(PyStr(best.text), Source("in-memory:fact-id=", best.id), "legal")
    ELSE IF flag THEN NoResponse
    ELSE Envelope(PyStr("No relevant info found."), Source("none", 0), "legal")

\* lines 168-175: the search at the default threshold, then the flag
LocalFallback ==
    /\ pc = "search45"
    /\ UNCHANGED << req, health_response, applied,
                    handlers, running >>
    /\ FACTS' = WithVectors(FACTS, encode)
    /\ calls' = Append(calls, "search45")
    /\ LET best == local_similarity_search(FACTS', question_vec, DefaultThresholdPct)
           res == LegalFallbackResult(best, FALLBACK_TO_LLM_FOR_LEGAL)
       IN  IF res.status = 0
           THEN /\ pc' = "llm"
                /\ UNCHANGED response
           ELSE Done(res)
    /\ UNCHANGED << qdrant_available, FALLBACK_TO_LLM_FOR_LEGAL, encode, question,
                    question_vec >>
    /\ UNCHANGED llm_vars

\* line 179 copied to line 174: the gateway's mode kept on both paths
LlmEnvelopeGatewayMode(res, legal) ==
    IF res.raised THEN [NoResponse EXCEPT !.status = 500]
    ELSE Envelope(res.answer, Source(res.source, 0), res.mode)

\* line 174 copied to line 179: the mode set by the orchestrator on both paths
LlmEnvelopeOwnMode(res, legal) ==
    IF res.raised THEN [NoResponse EXCEPT !.status = 500]
    ELSE Envelope(res.answer, Source(res.source, 0), "legal-llm")

\* line 174 (legal path) and line 179 (other questions): the envelope built from what
\* call_llm returned; an exception out of call_llm is a 500
LlmEnvelope(res, legal) ==
    IF res.raised THEN [NoResponse EXCEPT !.status = 500]
    ELSE Envelope(res.answer, Source(res.source, 0), IF legal THEN "legal-llm" ELSE res.mode)

LlmReturn ==
    /\ pc = "llm_return"
    /\ UNCHANGED << req, health_response, applied,
                    handlers, running >>
    /\ Done(LlmEnvelope(llm_res, is_legal_question(question)))
    /\ UNCHANGED << FACTS, qdrant_available, FALLBACK_TO_LLM_FOR_LEGAL, encode, question,
                    question_vec, calls >>
    /\ UNCHANGED llm_vars

\* the response is sent; the handler's locals are gone
Respond ==
    /\ pc = "done"
    /\ pc' = "idle"
    /\ question' = <<>>
    /\ question_vec' = NoVector
    /\ response' = NoResponse
    /\ calls' = <<>>
    /\ env' = NoEnv
    /\ provider' = <<>>
    /\ candidate_bodies' = <<>>
    /\ fallback_attempts' = <<>>
    /\ idx' = 0
    /\ body' = ""
    /\ r' = NoResponseYet
    /\ http' = <<>>
    /\ llm_res' = NoLlmRes
    /\ req' = NoRequest
    /\ UNCHANGED << FACTS, qdrant_available, FALLBACK_TO_LLM_FOR_LEGAL, encode,
                    health_response, applied,
                    handlers, running >>

(***************************************************************************)
(* llm.py call_llm                                                         *)
(***************************************************************************)
LlmReply(answer, source) == [raised |-> FALSE, answer |-> answer, source |-> source, mode |-> "llm"]

\* line 48
MockReply == LlmReply(PyStr("LLM not configured (mock reply)."), "mock")
\* line 237
UnknownProviderReply == LlmReply(PyStr("LLM provider unknown (mock)."), "mock")
\* lines 229 and 232
FailureReply == LlmReply(PyStr("LLM request failed (fallback mock)."), "llm:gemini-failed")
\* line 78
SdkReply == LlmReply(PyStr("sdk text"), "llm:gemini-sdk")
\* lines 176 and 224
SuccessReply(answer) == LlmReply(answer, "llm:gemini")
\* an exception that leaves call_llm
Propagated == [raised |-> TRUE, answer |-> PyNone, source |-> "", mode |-> ""]

\* the endpoint tested instead of the credentials
NotConfiguredByUrl(cfg) == cfg.api_url = <<>>

\* line 45: not GEMINI_API_KEY and not GEMINI_BEARER_TOKEN
NotConfigured(cfg) == cfg.api_key = "" /\ cfg.bearer = ""

\* the handler missing: the exception leaves call_llm
OnExceptionPropagates == Propagated

\* lines 230-232: except Exception around the primary attempts
OnException == FailureReply

\* the loop variable not used: the first body posted at every iteration
TryBodyFirst(bodies, i) == bodies[1]

\* the list iterated from its end
TryBodyReversed(bodies, i) == bodies[Len(bodies) + 1 - i]

\* line 129: the body tried at the i-th iteration
TryBody(bodies, i) == bodies[i]

Returns(res) == /\ llm_res' = res
                /\ pc' = "llm_return"

\* lines 41-48 and 235-237: the provider, the configuration, the mock replies
LlmEnter ==
    /\ pc = "llm"
    /\ UNCHANGED << req, health_response, applied,
                    handlers, running >>
    /\ calls' = Append(calls, "llm")
    /\ \E e \in Envs, p \in Providers :
          /\ provider' = Lower(p)
          /\ IF Lower(p) = << "gemini" >>
             THEN /\ env' = e
                  /\ IF NotConfigured(get_gemini_config(e))
                     THEN Returns(MockReply)
                     ELSE /\ pc' = "llm_sdk"
                          /\ UNCHANGED llm_res
             ELSE /\ env' = NoEnv
                  /\ Returns(UnknownProviderReply)
    /\ UNCHANGED << FACTS, qdrant_available, FALLBACK_TO_LLM_FOR_LEGAL, encode, question,
                    question_vec, response >>
    /\ UNCHANGED << candidate_bodies, fallback_attempts, idx, body, r, http >>

\* lines 51-128: the SDK attempt, then the headers and the candidate list; iterating a
\* name that was never bound raises inside the try block
LlmSdk ==
    /\ pc = "llm_sdk"
    /\ UNCHANGED << req, health_response, applied,
                    handlers, running >>
    /\ calls' = Append(calls, "sdk")
    /\ \E o \in SdkOutcomes :
          LET cb == CandidateBodies(get_gemini_config(env).api_url) IN
          IF o = "text"
          THEN /\ Returns(SdkReply)
               /\ UNCHANGED << candidate_bodies, idx >>
          ELSE IF ~cb.bound
          THEN /\ Returns(OnException)
               /\ UNCHANGED << candidate_bodies, idx >>
          ELSE /\ candidate_bodies' = cb.bodies
               /\ idx' = 1
               /\ pc' = "llm_post"
               /\ UNCHANGED llm_res
    /\ UNCHANGED << FACTS, qdrant_available, FALLBACK_TO_LLM_FOR_LEGAL, encode, question,
                    question_vec, response >>
    /\ UNCHANGED << env, provider, fallback_attempts, body, r, http >>

\* lines 129-176: one iteration of the loop over the candidate bodies, and what follows
\* the loop when it ends
LlmPost ==
    /\ pc = "llm_post"
    /\ UNCHANGED << req, health_response, applied,
                    handlers, running >>
    /\ \E out \in HttpOutcomes :
          LET url == get_gemini_config(env).api_url
              try_body == TryBody(candidate_bodies, idx)
          IN
          /\ http' = Append(http, [phase |-> "primary", url |-> url, body |-> try_body,
                                   headers |-> Headers(url, get_gemini_config(env))])
          /\ body' = try_body
          /\ r' = out
          /\ CASE out.status = "timeout" ->
                    \* requests.post raises: not an HTTPError
                    /\ Returns(OnException)
                    /\ UNCHANGED << idx, fallback_attempts >>
               [] out.status = "http_error" ->
                    IF idx < Len(candidate_bodies)
                    THEN /\ idx' = idx + 1
                         /\ UNCHANGED << pc, llm_res, fallback_attempts >>
                    ELSE \* raise last_err: the HTTPError handler builds the fallback URLs
                         /\ fallback_attempts' = FallbackAttempts(url)
                         /\ IF FallbackAttempts(url) = <<>>
                            THEN /\ Returns(FailureReply)
                                 /\ UNCHANGED idx
                            ELSE /\ idx' = 1
                                 /\ pc' = "llm_fallback"
                                 /\ UNCHANGED llm_res
               [] out.status = "ok" ->
                    /\ UNCHANGED << idx, fallback_attempts >>
                    /\ IF ~out.json
                       THEN Returns(OnException)
                       ELSE LET parsed == ParsePrimary(out.data) IN
                            IF parsed.raised THEN Returns(OnException)
                            ELSE Returns(SuccessReply(parsed.answer))
    /\ UNCHANGED << FACTS, qdrant_available, FALLBACK_TO_LLM_FOR_LEGAL, encode, question,
                    question_vec, response, calls >>
    /\ UNCHANGED << env, provider, candidate_bodies >>

\* lines 200-229: one iteration of the loop over the fallback URLs; every exception of
\* an iteration is swallowed and the loop goes on
LlmFallbackPost ==
    /\ pc = "llm_fallback"
    /\ UNCHANGED << req, health_response, applied,
                    handlers, running >>
    /\ \E out \in HttpOutcomes :
          LET url == get_gemini_config(env).api_url
              attempt == fallback_attempts[idx]
              parsed == IF out.status = "ok" /\ out.json THEN ParseFallback(out.data)
                        ELSE Raised
          IN
          /\ http' = Append(http, [phase |-> "fallback", url |-> attempt, body |-> body,
                                   headers |-> Headers(url, get_gemini_config(env))])
          /\ r' = out
          /\ IF ~parsed.raised
             THEN /\ Returns(SuccessReply(parsed.answer))
                  /\ UNCHANGED idx
             ELSE IF idx < Len(fallback_attempts)
             THEN /\ idx' = idx + 1
                  /\ UNCHANGED << pc, llm_res >>
             ELSE /\ Returns(FailureReply)
                  /\ UNCHANGED idx
    /\ UNCHANGED << FACTS, qdrant_available, FALLBACK_TO_LLM_FOR_LEGAL, encode, question,
                    question_vec, response, calls >>
    /\ UNCHANGED << env, provider, candidate_bodies, fallback_attempts, body >>

Next ==
    \/ startup_event
    \/ Receive
    \/ LocalShortCircuit
    \/ Classify
    \/ QueryQdrant
    \/ LocalFallback
    \/ LlmEnter
    \/ LlmSdk
    \/ LlmPost
    \/ LlmFallbackPost
    \/ LlmReturn
    \/ Respond
    \/ Health
    \/ HealthRespond

Spec == Init /\ [][Next]_vars

\* every step of a handler is taken: the server keeps running a request it accepted
FairSpec == Spec /\ WF_vars(Next)

(***************************************************************************)
(* The functions of search.py applied on their own, to a corpus and a      *)
(* question vector chosen at the start                                     *)
(***************************************************************************)
\* corpus vectors, the zero vector among them
CorpusVecs == FactVecs \cup { <<0, 0>> }

\* the corpora of at most NumFacts facts, vectors present
Corpora ==
    UNION { { [i \in 1..n |-> [id |-> i, text |-> FactTexts[i], vector |-> v[i]]] :
                v \in [1..n -> CorpusVecs] } : n \in 0..NumFacts }

\* thresholds in hundredths: negative, zero, the default and the high one
Thresholds == { -50, 0, DefaultThresholdPct, HighThresholdPct }

PureInit ==
    /\ FACTS \in Corpora
    /\ question_vec \in QVecs
    /\ qdrant_available = TRUE
    /\ FALLBACK_TO_LLM_FOR_LEGAL = FALSE
    /\ encode = [t \in {FactTexts[i] : i \in 1..NumFacts} |-> <<1, 0>>]
    /\ pc = "pure"
    /\ question = <<>>
    /\ response = NoResponse
    /\ calls = <<>>
    /\ env = NoEnv
    /\ provider = <<>>
    /\ candidate_bodies = <<>>
    /\ fallback_attempts = <<>>
    /\ idx = 0
    /\ body = ""
    /\ r = NoResponseYet
    /\ http = <<>>
    /\ llm_res = NoLlmRes
    /\ req = NoRequest
    /\ health_response = NoHealth
    /\ applied = NotApplied
    /\ handlers = NoHandlers
    /\ running = NoHandler

\* the function has returned; nothing else moved
Applied(a) ==
    /\ applied' = a
    /\ pc' = "applied"
    /\ UNCHANGED << qdrant_available, FALLBACK_TO_LLM_FOR_LEGAL, encode, question,
                    question_vec, response, calls, req, health_response,
                    handlers, running >>
    /\ UNCHANGED llm_vars

\* query_qdrant(client, collection, question_vec) for one behaviour of the client
ApplyQueryQdrant ==
    /\ pc = "pure"
    /\ UNCHANGED FACTS
    /\ \E res \in QdrantOutcomes(FACTS) :
          Applied([fn |-> "query_qdrant", res |-> res, out |-> query_qdrant(res)])

\* local_similarity_search(facts, question_vec, threshold)
ApplyLocalSearch ==
    /\ pc = "pure"
    /\ FACTS' = WithVectors(FACTS, encode)
    /\ \E t \in Thresholds :
          Applied([fn |-> "local_similarity_search", threshold |-> t,
                   out |-> local_similarity_search(FACTS', question_vec, t)])

\* local_similarity_search on the same corpus and question at two thresholds
ApplyLocalSearchTwice ==
    /\ pc = "pure"
    /\ FACTS' = WithVectors(FACTS, encode)
    /\ \E t1 \in Thresholds, t2 \in Thresholds :
          /\ t1 < t2
          /\ Applied([fn |-> "local_similarity_search twice", t1 |-> t1, t2 |-> t2,
                      out1 |-> local_similarity_search(FACTS', question_vec, t1),
                      out2 |-> local_similarity_search(FACTS', question_vec, t2)])

\* a field that the response does not have
Absent == [t |-> "absent"]

\* JSON objects with any of the five fields the parsers look at
ParseBodies ==
    { PyDict([k \in { f \in DOMAIN fields : fields[f] # Absent } |-> fields[k]]) :
        fields \in
          [ candidates : { Absent, PyList(<<>>), PyList(<< PyDict(EmptyKV) >>),
                           PyList(<< PyDict([content |-> PyStr("C")]) >>),
                           PyList(<< PyDict([output |-> PyStr("O")]) >>),
                           PyList(<< PyDict([content |-> PyStr(""),
                                             output |-> PyStr("O")]) >>) },
            output : { Absent, PyList(<< PyStr("x") >>),
                       PyList(<< PyDict([content |->
                                    PyList(<< PyDict([text |-> PyStr("X")]) >>)]) >>) },
            text : { Absent, PyStr(""), PyStr("T") },
            content : { Absent, PyStr("K") },
            message : { Absent, PyStr("M") } ] }

\* llm.py 150-176 and 209-224 on one decoded response body
ApplyParse ==
    /\ pc = "pure"
    /\ UNCHANGED FACTS
    /\ \E data \in ParseBodies :
          Applied([fn |-> "parse", data |-> data, primary |-> ParsePrimary(data),
                   fallback |-> ParseFallback(data)])

PureNext ==
    \/ ApplyQueryQdrant
    \/ ApplyLocalSearch
    \/ ApplyLocalSearchTwice
    \/ ApplyParse

PureSpec == PureInit /\ [][PureNext]_vars

(***************************************************************************)
(* main.py query_facts, two requests in flight together.  query_facts is   *)
(* an async def without any await: the handler that got the event loop     *)
(* keeps it until it returns.  call_llm keeps nothing between calls, so    *)
(* here it is its reply.                                                   *)
(***************************************************************************)
HandlerIds == { "a", "b" }

\* client.query_points not called
NotQueried == [kind |-> "not-called", result |-> <<>>]

\* a request not yet received
NewHandler ==
    [pc |-> "idle", question |-> <<>>, question_vec |-> NoVector, calls |-> <<>>,
     queried |-> FALSE, store |-> NotQueried, results |-> NoMatch, llm |-> NoLlmRes,
     response |-> NoResponse]

\* startup_event: prepare_facts_with_vectors got through the first n facts
AfterStartup(n, enc) ==
    [i \in 1..NumFacts |->
        [id |-> i, text |-> FactTexts[i],
         vector |-> IF i <= n THEN enc[FactTexts[i]] ELSE NoVector]]

\* the replies of call_llm: lines 47, 176, 232
LlmReplies == { MockReply, SuccessReply(PyStr("A")), FailureReply }

\* the behaviours of client.query_points with at most one point; of the points without
\* a text payload, one of each kind
OnePointOutcomes(facts) ==
    { o \in QdrantOutcomes(facts) :
        /\ Len(o.result) <= 1
        /\ (Len(o.result) = 1 /\ o.result[1].payload # "dict-text")
              => (o.result[1].id = facts[1].id /\ o.result[1].score = 95) }

ConcInit ==
    /\ encode \in [{FactTexts[i] : i \in 1..NumFacts} -> FactVecs]
    /\ \E n \in 0..NumFacts :
          /\ FACTS = AfterStartup(n, encode)
          /\ qdrant_available \in (IF n < NumFacts THEN { FALSE } ELSE BOOLEAN)
    /\ FALLBACK_TO_LLM_FOR_LEGAL \in BOOLEAN
    /\ pc = "serving"
    /\ question = <<>>
    /\ question_vec = NoVector
    /\ response = NoResponse
    /\ calls = <<>>
    /\ env = NoEnv
    /\ provider = <<>>
    /\ candidate_bodies = <<>>
    /\ fallback_attempts = <<>>
    /\ idx = 0
    /\ body = ""
    /\ r = NoResponseYet
    /\ http = <<>>
    /\ llm_res = NoLlmRes
    /\ req = NoRequest
    /\ health_response = NoHealth
    /\ applied = NotApplied
    /\ handlers = [h \in HandlerIds |-> NewHandler]
    /\ running = NoHandler

\* search.py 82-84: one MODEL.encode call for every fact that has no vector
BackfillEvents(facts) ==
    [k \in 1..Cardinality({ i \in 1..Len(facts) : facts[i].vector = NoVector }) |->
        "embed-fact"]

\* handler h may take a step: the event loop is free or h holds it
MayRun(h, at) ==
    /\ running \in { NoHandler, h }
    /\ handlers[h].pc = at

\* handler h goes on to its next statement, holding the event loop
GoOn(h, hd) ==
    /\ handlers' = [handlers EXCEPT ![h] = hd]
    /\ running' = h

\* handler h returns or raises HTTPException: the event loop is free again
Finish(h, hd, resp) ==
    /\ handlers' = [handlers EXCEPT ![h] = [hd EXCEPT !.pc = "done", !.response = resp]]
    /\ running' = NoHandler

\* what no step of a handler touches
ConcFrame ==
    /\ UNCHANGED << qdrant_available, FALLBACK_TO_LLM_FOR_LEGAL, encode, pc, question,
                    question_vec, response, calls, req, health_response, applied >>
    /\ UNCHANGED llm_vars

\* lines 144-149
ConcReceive(h) ==
    /\ MayRun(h, "idle")
    /\ \E q \in Questions, v \in QVecs :
          LET hd == [handlers[h] EXCEPT !.question = q] IN
          IF Strip(q) = <<>>
          THEN Finish(h, hd, [NoResponse EXCEPT !.status = 400])
          ELSE GoOn(h, [hd EXCEPT !.question_vec = v, !.calls = << "embed" >>,
                                  !.pc = "search70"])
    /\ UNCHANGED FACTS
    /\ ConcFrame

\* lines 152-154
ConcLocalShortCircuit(h) ==
    /\ MayRun(h, "search70")
    /\ FACTS' = WithVectors(FACTS, encode)
    /\ LET hd == [handlers[h] EXCEPT !.calls = (@ \o BackfillEvents(FACTS)) \o << "search70" >>]
           local_best == local_similarity_search(FACTS', hd.question_vec, HighThresholdPct)
       IN  IF local_best.found
           THEN Finish(h, hd, Envelope(PyStr(local_best.text),
                                       Source("in-memory:fact-id=", local_best.id),
                                       "retrieved"))
           ELSE GoOn(h, [hd EXCEPT !.pc = "classify"])
    /\ ConcFrame

\* lines 158-160 and 176-178
ConcClassify(h) ==
    /\ MayRun(h, "classify")
    /\ LET hd == [handlers[h] EXCEPT !.calls = Append(@, "classify")] IN
          GoOn(h, [hd EXCEPT !.pc = AfterClassify(is_legal_question(Strip(hd.question)),
                                                  qdrant_available)])
    /\ UNCHANGED FACTS
    /\ ConcFrame

\* lines 162-166
ConcQueryQdrant(h) ==
    /\ MayRun(h, "qdrant")
    /\ \E res \in OnePointOutcomes(FACTS) :
          LET results == query_qdrant(res)
              hd == [handlers[h] EXCEPT !.calls = @ \o QdrantEvents(res),
                                        !.queried = TRUE, !.store = res,
                                        !.results = results]
          IN  IF results.found
              THEN Finish(h, hd, Envelope(PyStr(results.text),
                                          Source("qdrant:apples id=", results.id), "legal"))
              ELSE GoOn(h, [hd EXCEPT !.pc = "search45"])
    /\ UNCHANGED FACTS
    /\ ConcFrame

\* lines 168-175
ConcLocalFallback(h) ==
    /\ MayRun(h, "search45")
    /\ FACTS' = WithVectors(FACTS, encode)
    /\ LET hd == [handlers[h] EXCEPT !.calls = (@ \o BackfillEvents(FACTS)) \o << "search45" >>]
           best == local_similarity_search(FACTS', hd.question_vec, DefaultThresholdPct)
           res == LegalFallbackResult(best, FALLBACK_TO_LLM_FOR_LEGAL)
       IN  IF res.status = 0
           THEN GoOn(h, [hd EXCEPT !.pc = "llm"])
           ELSE Finish(h, hd, res)
    /\ ConcFrame

\* lines 173-174 and 178-179
ConcCallLlm(h) ==
    /\ MayRun(h, "llm")
    /\ \E reply \in LlmReplies :
          LET hd == [handlers[h] EXCEPT !.calls = Append(@, "llm"), !.llm = reply] IN
          Finish(h, hd, LlmEnvelope(reply, is_legal_question(Strip(hd.question))))
    /\ UNCHANGED FACTS
    /\ ConcFrame

ConcNext ==
    \E h \in HandlerIds :
        \/ ConcReceive(h)
        \/ ConcLocalShortCircuit(h)
        \/ ConcClassify(h)
        \/ ConcQueryQdrant(h)
        \/ ConcLocalFallback(h)
        \/ ConcCallLlm(h)

ConcSpec == ConcInit /\ [][ConcNext]_vars

(***************************************************************************)
(* Properties                                                              *)
(***************************************************************************)
Populated(resp) ==
    /\ resp.status = 200
    /\ resp.answer # PyNone
    /\ resp.source.kind # ""
    /\ resp.mode # ""

\* C1: every question that is non-empty after trimming is answered: the handler, once
\* it has accepted the question, reaches its end with a 200 and an envelope holding an
\* answer, a source and a mode, and no request ever ends in a 500.
C1_AlwaysAnswers ==
    /\ (pc = "search70") ~> (pc = "done" /\ Populated(response))
    /\ [](response.status # 500)

\* a request answered after every candidate body and every fallback URL failed
C1_Witness ==
    /\ pc = "done"
    /\ Populated(response)
    /\ response.source.kind = "llm:gemini-failed"
    /\ Len(http) = Len(V1CandidateBodies) + Len(FallbackAttempts(DefaultUrl))

\* the score of fact i against the current question
FactScore(i) == Sim(FACTS[i].vector, question_vec)

\* a request with a non-empty question has been answered
Answered == pc = "done" /\ response.status = 200

RetrievedEnvelope(i) ==
    Envelope(PyStr(FACTS[i].text), Source("in-memory:fact-id=", FACTS[i].id), "retrieved")

\* C2 as stated: whenever some fact scores >= 0.70 against the question, the answer is
\* that fact's text with mode "retrieved" and that fact's id as the source - for every
\* fact that scores >= 0.70.
C2_Original ==
    Answered =>
        \A i \in 1..NumFacts :
            ScoreAtLeast(FactScore(i), HighThresholdPct) => response = RetrievedEnvelope(i)

\* C2 amended: whenever some fact scores >= 0.70 against the question, the answer is the
\* text of the fact with the highest score (the first such fact of the corpus on a tie)
\* with mode "retrieved" and that fact's id as the source, whatever the classifier says
\* and whatever the vector-store and LLM state.
C2_BestFactRetrieved ==
    Answered =>
        \A i \in 1..NumFacts :
            ( /\ ScoreAtLeast(FactScore(i), HighThresholdPct)
              /\ \A j \in 1..NumFacts : ~ScoreLess(FactScore(i), FactScore(j))
              /\ \A j \in 1..(i - 1) : ScoreLess(FactScore(j), FactScore(i)) )
            => response = RetrievedEnvelope(i)

\* a legal question answered from the corpus while two facts score >= 0.70, the second
\* of them the best
C2_Witness ==
    /\ Answered
    /\ is_legal_question(question)
    /\ response = RetrievedEnvelope(3)
    /\ ScoreAtLeast(FactScore(1), HighThresholdPct)
    /\ ScoreLess(FactScore(1), FactScore(3))

\* C3: call_llm never raises: whatever the provider, the configuration, the SDK and the
\* HTTP outcomes, it returns a dictionary with a non-empty answer, a source and a mode;
\* when the last request sent did not succeed, the dictionary is the fixed failure reply
\* with source "llm:gemini-failed".
C3_NeverRaises ==
    pc = "llm_return" =>
        /\ ~llm_res.raised
        /\ Truthy(llm_res.answer)
        /\ llm_res.source # ""
        /\ llm_res.mode # ""
        /\ (http # <<>> /\ r.status # "ok" => llm_res = FailureReply)

\* call_llm returned the failure reply after all candidate bodies and all fallback URLs
\* failed, the last of them by a timeout
C3_Witness ==
    /\ pc = "llm_return"
    /\ llm_res = FailureReply
    /\ fallback_attempts # <<>>
    /\ Len(http) = Len(candidate_bodies) + Len(fallback_attempts)
    /\ r.status = "timeout"

\* C4: when neither an API key nor a bearer token is configured at the time of the call,
\* call_llm(question, "gemini") returns the fixed mock reply (source "mock", non-empty
\* answer) and has made no SDK call and sent no HTTP request.
C4_MockWithoutCredentials ==
    ( /\ pc = "llm_return"
      /\ provider = << "gemini" >>
      /\ env.GEMINI_API_KEY = ""
      /\ env.GEMINI_BEARER_TOKEN = "" )
    => /\ llm_res = MockReply
       /\ llm_res.source = "mock"
       /\ Truthy(llm_res.answer)
       /\ \A k \in 1..Len(calls) : calls[k] # "sdk"
       /\ http = <<>>

\* call_llm returned for provider "Gemini" with no credentials and an endpoint override
C4_Witness ==
    /\ pc = "llm_return"
    /\ provider = << "gemini" >>
    /\ env.GEMINI_API_KEY = ""
    /\ env.GEMINI_BEARER_TOKEN = ""
    /\ env.GEMINI_API_URL # <<>>
    /\ llm_res = MockReply

LlmSources == { "mock", "llm:gemini", "llm:gemini-sdk", "llm:gemini-failed" }

\* the current request is a legal question without a match at 0.70, handled while the
\* vector store is marked unavailable
LegalUnavailable ==
    /\ Answered
    /\ is_legal_question(question)
    /\ \A i \in 1..NumFacts : ~ScoreAtLeast(FactScore(i), HighThresholdPct)
    /\ ~qdrant_available

\* C5 as stated: such a request gets mode "legal" and a source that is an in-memory fact
\* id or "none", never an LLM source, for every value of the fallback flag.
C5_Original ==
    LegalUnavailable =>
        /\ response.mode = "legal"
        /\ response.source.kind \in { "in-memory:fact-id=", "none" }

\* C5 amended: such a request gets mode "legal" and a source that is an in-memory fact
\* id or "none", never an LLM source, when the LLM-for-legal flag is off or some fact
\* scores at least the default threshold; when the flag is on and no fact scores at
\* least the default threshold, the mode is "legal-llm" and the source is an LLM source.
C5_LegalUnavailable ==
    LegalUnavailable =>
        IF FALLBACK_TO_LLM_FOR_LEGAL
           /\ \A i \in 1..NumFacts : ~ScoreAtLeast(FactScore(i), DefaultThresholdPct)
        THEN /\ response.mode = "legal-llm"
             /\ response.source.kind \in LlmSources
        ELSE /\ response.mode = "legal"
             /\ response.source.kind \in { "in-memory:fact-id=", "none" }
             /\ \A k \in 1..Len(calls) : calls[k] # "llm"

\* such a request answered "none" with the flag off
C5_Witness ==
    /\ LegalUnavailable
    /\ ~FALLBACK_TO_LLM_FOR_LEGAL
    /\ response.source.kind = "none"
    /\ response.mode = "legal"

\* C6: a question without a classifier keyword and without a match at 0.70 makes
\* query_facts call the LLM gateway once, and the envelope's answer, source and mode are
\* the ones the gateway returned.
C6_GatewayPassedThrough ==
    ( /\ Answered
      /\ ~is_legal_question(question)
      /\ \A i \in 1..NumFacts : ~ScoreAtLeast(FactScore(i), HighThresholdPct) )
    => /\ Cardinality({ k \in 1..Len(calls) : calls[k] = "llm" }) = 1
       /\ response.answer = llm_res.answer
       /\ response.source = Source(llm_res.source, 0)
       /\ response.mode = llm_res.mode

\* such a question answered with what the gateway extracted from a fallback-URL response
C6_Witness ==
    /\ Answered
    /\ ~is_legal_question(question)
    /\ response.mode = "llm"
    /\ response.source.kind = "llm:gemini"
    /\ response.answer = PyStr("A")
    /\ Len(http) > Len(candidate_bodies)

\* the requests of the loop over the candidate bodies
PrimaryRequests == SelectSeq(http, LAMBDA h : h.phase = "primary")

\* C7: the candidate bodies are sent to the configured endpoint in the order of the
\* fixed list, one at a time, each after the one before it got an HTTP error status; no
\* candidate is sent after a response with a non-error status.  The payloads attempted
\* are therefore a function of the endpoint and of the responses.
C7_CandidatesInOrder ==
    LET url == get_gemini_config(env).api_url
        fixed == CandidateBodies(url).bodies
    IN  /\ Len(PrimaryRequests) <= Len(fixed)
        /\ \A k \in 1..Len(PrimaryRequests) :
              /\ PrimaryRequests[k].body = fixed[k]
              /\ PrimaryRequests[k].url = url
              /\ http[k] = PrimaryRequests[k]
        /\ (pc = "llm_post" /\ http # <<>> => r.status = "http_error")
        /\ (pc = "llm_post" => Len(http) = idx - 1)

\* the third candidate body succeeded after the first two got an HTTP error
C7_Witness ==
    /\ pc = "llm_return"
    /\ llm_res.source = "llm:gemini"
    /\ Len(http) = 3
    /\ http[3].phase = "primary"
    /\ http[3].body = "input"

\* C8 as stated: call_llm goes on to the fallback URLs if and only if every candidate
\* body got an HTTP error status; it then posts to the fallback URLs in order, each
\* request with the body of the last candidate, stops at the first fallback URL that
\* returns a non-error status, and parses that response as the primary path does.
C8_Step ==
    LET url == get_gemini_config(env).api_url IN
    /\ pc = "llm_post" =>
          ( pc' = "llm_fallback"
            <=> ( /\ Len(http') = Len(CandidateBodies(url).bodies)
                  /\ r'.status = "http_error"
                  /\ FallbackAttempts(url) # <<>> ) )
    /\ pc = "llm_fallback" =>
          /\ http' = Append(http, [phase |-> "fallback",
                                   url |-> FallbackAttempts(url)[Len(http) + 1 - Len(PrimaryRequests)],
                                   body |-> PrimaryRequests[Len(PrimaryRequests)].body,
                                   headers |-> PrimaryRequests[Len(PrimaryRequests)].headers])
          /\ r'.status = "ok" =>
                /\ pc' = "llm_return"
                /\ llm_res'.source = "llm:gemini"
                /\ r'.json => /\ ParseFallback(r'.data) = ParsePrimary(r'.data)
                              /\ llm_res'.answer = ParsePrimary(r'.data).answer

C8_FallbackPhase == [][C8_Step]_vars

\* C9 as stated: the failure reply is returned only after every candidate body and every
\* fallback URL has been tried.
C9_FailureOnlyWhenExhausted ==
    LET url == get_gemini_config(env).api_url IN
    (pc = "llm_return" /\ llm_res.source = "llm:gemini-failed")
    => Len(http) = Len(CandidateBodies(url).bodies) + Len(FallbackAttempts(url))

\* C10 as stated: once an HTTP request of call_llm got a non-error status, call_llm
\* sends nothing more and returns a reply with source "llm:gemini"; when the body is JSON
\* that is not an object, or an object without fields, the answer is the stringified
\* response.
C10_SuccessIsNeverAFailure ==
    r.status = "ok" =>
        /\ pc \in { "llm_return", "done" }
        /\ llm_res.source = "llm:gemini"
        /\ (r.json /\ (~IsDict(r.data) \/ r.data = PyDict(EmptyKV))
               => llm_res.answer = PyRepr(r.data))

\* C11: query_qdrant never raises: when the client raises, returns None or an object
\* without result, when the result is empty, or when the top point has no dict payload
\* with "text", it returns None; otherwise it returns the text, id and score of the
\* first point and nothing of the others.
C11_QdrantNeverRaises ==
    applied.fn = "query_qdrant" =>
        LET res == applied.res
            out == applied.out
        IN  /\ ~out.raised
            /\ IF \/ res.kind # "result"
                  \/ res.result = <<>>
                  \/ res.result[1].payload # "dict-text"
               THEN out = NoMatch
               ELSE /\ out.found
                    /\ out.text = res.result[1].text
                    /\ out.id = res.result[1].id
                    /\ out.score = [dot |-> res.result[1].score, n2 |-> 100 * 100]

\* the client raised and query_qdrant returned None
C11_Witness ==
    /\ applied.fn = "query_qdrant"
    /\ applied.res.kind = "raise"
    /\ applied.out = NoMatch

\* C12: once the availability flag is false it stays false, and no request handled
\* afterwards queries the vector store: after the classifier a legal question goes
\* straight to the in-memory search at the default threshold.
C12_Step ==
    ~qdrant_available =>
        /\ ~qdrant_available'
        /\ pc' # "qdrant"
        /\ \A i \in 1..Len(calls') : calls'[i] # "qdrant"
        /\ (pc = "classify" /\ is_legal_question(question)) => pc' = "search45"

C12_UnavailableStaysSkipped == [][C12_Step]_vars

\* a legal question answered with the store marked unavailable
C12_Witness ==
    /\ ~qdrant_available
    /\ pc = "done"
    /\ is_legal_question(question)
    /\ calls = << "embed", "search70", "classify", "search45" >>

\* C13 as stated: after a vector-store query failed during a request, the availability
\* flag is false, and the caller receives no error.
C13_QueryFailureFlipsFlag ==
    (\E i \in 1..Len(calls) : calls[i] = "qdrant-error") =>
        /\ ~qdrant_available
        /\ pc = "done" => response.status = 200

\* only whitespace, or nothing at all
Blank(q) == \A i \in 1..Len(q) : q[i] = " "

\* C14: a question that is empty after trimming is rejected with a 400 before any
\* pipeline step: nothing is embedded, searched, classified, queried or sent to the LLM,
\* and no process state changes; every other question enters the pipeline and gets a
\* 200 with an envelope.
C14_Step ==
    /\ (pc = "idle" /\ req'.present) =>
          IF Blank(req'.question)
          THEN /\ pc' = "done"
               /\ response' = [NoResponse EXCEPT !.status = 400]
               /\ calls' = <<>>
               /\ http' = <<>>
               /\ UNCHANGED << FACTS, qdrant_available, FALLBACK_TO_LLM_FOR_LEGAL, encode,
                               question_vec >>
               /\ UNCHANGED llm_vars
          ELSE /\ pc' = "search70"
               /\ calls' = << "embed" >>
    /\ (pc' = "done" /\ ~Blank(req'.question)) => Populated(response')

C14_BlankRejected == [][C14_Step]_vars

\* a question of two spaces got the 400
C14_Witness ==
    /\ pc = "done"
    /\ req.question = << " ", " " >>
    /\ response.status = 400

\* the current request is a legal question that went past the vector store (unavailable,
\* miss or error) and has no fact at the default threshold, hence none at 0.70
LegalNothingFound ==
    /\ Answered
    /\ is_legal_question(question)
    /\ \E k \in 1..Len(calls) : calls[k] = "search45"
    /\ \A i \in 1..NumFacts : ~ScoreAtLeast(FactScore(i), DefaultThresholdPct)

\* C15: for such a request, with the LLM-for-legal flag set the gateway is called exactly
\* once and the envelope has its answer and source with mode "legal-llm"; with the flag
\* not set the gateway is not called, nothing is posted, and the envelope is exactly
\* "No relevant info found." / none / legal.
C15_LegalLastResort ==
    LegalNothingFound =>
        IF FALLBACK_TO_LLM_FOR_LEGAL
        THEN /\ Cardinality({ k \in 1..Len(calls) : calls[k] = "llm" }) = 1
             /\ response = Envelope(llm_res.answer, Source(llm_res.source, 0), "legal-llm")
        ELSE /\ \A k \in 1..Len(calls) : calls[k] # "llm"
             /\ http = <<>>
             /\ response = Envelope(PyStr("No relevant info found."), Source("none", 0),
                                    "legal")

\* the flag set, the store failed at query time, and the gateway's own reply came back
C15_Witness ==
    /\ LegalNothingFound
    /\ FALLBACK_TO_LLM_FOR_LEGAL
    /\ \E k \in 1..Len(calls) : calls[k] = "qdrant-error"
    /\ llm_res.mode = "llm"
    /\ response.mode = "legal-llm"
    /\ response.source.kind = "llm:gemini"

\* C16: local_similarity_search never raises; it returns the first fact among those of
\* maximum cosine similarity to the question, with that fact's text, id and score, exactly
\* when some fact scores >= threshold; otherwise (no fact reaches the threshold, the
\* corpus is empty, a zero-norm question under a positive threshold) it returns None.
C16_ArgMaxAtThreshold ==
    applied.fn = "local_similarity_search" =>
        LET out == applied.out
            t == applied.threshold
            score(i) == Sim(FACTS[i].vector, question_vec)
        IN  /\ ~out.raised
            /\ IF \E i \in 1..Len(FACTS) : ScoreAtLeast(score(i), t)
               THEN \E i \in 1..Len(FACTS) :
                       /\ \A j \in 1..Len(FACTS) : ~ScoreLess(score(i), score(j))
                       /\ \A j \in 1..(i - 1) : ScoreLess(score(j), score(i))
                       /\ out = Match(FACTS[i].text, FACTS[i].id, score(i))
               ELSE out = NoMatch

\* a zero-norm question scores 0 against all three facts; at threshold 0 the first fact
\* is returned
C16_Witness ==
    /\ applied.fn = "local_similarity_search"
    /\ Len(FACTS) = NumFacts
    /\ question_vec = << 0, 0 >>
    /\ applied.threshold = 0
    /\ applied.out.found
    /\ applied.out.id = 1

\* C17: for a fixed corpus and question and thresholds t1 < t2, a match at t2 is the
\* same match at t1: raising the threshold can only turn a hit into a miss.
C17_MonotonicInThreshold ==
    applied.fn = "local_similarity_search twice" =>
        /\ applied.t1 < applied.t2
        /\ applied.out2.found => applied.out1 = applied.out2

\* a hit at 0.70 is the same hit at the default 0.45
C17_Witness ==
    /\ applied.fn = "local_similarity_search twice"
    /\ applied.t1 = DefaultThresholdPct
    /\ applied.t2 = HighThresholdPct
    /\ applied.out2.found
    /\ applied.out1 = applied.out2

\* C18 as stated: in every envelope query_facts returns, mode is one of retrieved, legal,
\* legal-llm, llm, and answer and source are strings that are present - the answer is
\* never a non-string value of a collaborator's response.
C18_EnvelopeWellTyped ==
    Answered =>
        /\ response.mode \in { "retrieved", "legal", "legal-llm", "llm" }
        /\ response.answer.t = "str"
        /\ response.source.kind # ""

\* C19 as stated: the gemini_configured value of GET /health is true exactly when an API
\* key or a bearer token is configured: it agrees with is_gemini_configured and with
\* call_llm not taking the mock reply; and its qdrant_available value is the current flag.
C19_HealthReportsCredentials ==
    pc = "health" =>
        /\ health_response.gemini_configured = is_gemini_configured(env)
        /\ health_response.gemini_configured = ~NotConfigured(get_gemini_config(env))
        /\ health_response.qdrant_available = qdrant_available

FallbackRequests == SelectSeq(http, LAMBDA h : h.phase = "fallback")

\* C20: within one call_llm invocation the requests are sequential and bounded: every
\* candidate body is posted at most once, then every fallback URL at most once, nothing
\* is repeated, and the requests number at most the candidate bodies plus the fallback
\* URLs, whatever the HTTP outcomes.
C20_BoundedRetries ==
    LET url == get_gemini_config(env).api_url
        bodies == CandidateBodies(url).bodies
        urls == FallbackAttempts(url)
    IN  /\ \A b \in 1..Len(bodies) :
              Cardinality({ k \in 1..Len(PrimaryRequests) :
                              PrimaryRequests[k].body = bodies[b] }) <= 1
        /\ \A u \in 1..Len(urls) :
              Cardinality({ k \in 1..Len(FallbackRequests) :
                              FallbackRequests[k].url = urls[u] }) <= 1
        /\ \A j \in 1..Len(http) : \A k \in (j + 1)..Len(http) :
              /\ http[j] # http[k]
              /\ http[j].phase = "fallback" => http[k].phase = "fallback"
        /\ Len(PrimaryRequests) <= Len(bodies)
        /\ Len(FallbackRequests) <= Len(urls)
        /\ Len(http) <= Len(bodies) + Len(urls)

\* every candidate body and every fallback URL failed: nine plus six requests, then the
\* failure reply
C20_Witness ==
    /\ pc = "llm_return"
    /\ llm_res.source = "llm:gemini-failed"
    /\ Len(PrimaryRequests) = Len(V1CandidateBodies)
    /\ Len(FallbackRequests) = Len(FallbackAttempts(DefaultUrl))
    /\ Len(http) = Len(V1CandidateBodies) + Len(FallbackAttempts(DefaultUrl))
    /\ Len(http) > Len(V1CandidateBodies)

\* the envelope handler hd would get if it were the only request: the same question,
\* vector and collaborator responses, the corpus as startup and backfill make it
AloneEnvelope(hd) ==
    LET facts == WithVectors(FACTS, encode)
        q == Strip(hd.question)
        legal == is_legal_question(q)
        best70 == local_similarity_search(facts, hd.question_vec, HighThresholdPct)
        best45 == local_similarity_search(facts, hd.question_vec, DefaultThresholdPct)
        last == LegalFallbackResult(best45, FALLBACK_TO_LLM_FOR_LEGAL)
    IN  IF q = <<>> THEN [NoResponse EXCEPT !.status = 400]
        ELSE IF best70.found
        THEN Envelope(PyStr(best70.text), Source("in-memory:fact-id=", best70.id),
                      "retrieved")
        ELSE IF ~legal THEN LlmEnvelope(hd.llm, FALSE)
        ELSE IF qdrant_available /\ ~hd.queried THEN NoResponse
        ELSE IF qdrant_available /\ hd.results.found
        THEN Envelope(PyStr(hd.results.text), Source("qdrant:apples id=", hd.results.id),
                      "legal")
        ELSE IF last.status = 0 THEN LlmEnvelope(hd.llm, TRUE)
        ELSE last

\* the MODEL.encode calls made for facts by all handlers so far
FactsEmbedded ==
    LET n(h) == Cardinality({ k \in 1..Len(handlers[h].calls) :
                                handlers[h].calls[k] = "embed-fact" })
    IN  n("a") + n("b")

\* C21: requests are independent: whatever the order in which two requests in flight
\* are handled, each gets the envelope it would get alone with the same collaborator
\* responses, and no step of a handler changes the availability flag, a fact's id or
\* text, or a fact vector that is present; a missing vector is backfilled at most once.
C21_Step ==
    /\ qdrant_available' = qdrant_available
    /\ Len(FACTS') = Len(FACTS)
    /\ \A i \in 1..Len(FACTS) :
          /\ FACTS'[i].id = FACTS[i].id
          /\ FACTS'[i].text = FACTS[i].text
          /\ FACTS[i].vector # NoVector => FACTS'[i].vector = FACTS[i].vector
    /\ FactsEmbedded' + Cardinality({ i \in 1..Len(FACTS') : FACTS'[i].vector = NoVector })
          <= NumFacts
    /\ \A h \in HandlerIds :
          handlers'[h].pc = "done" => handlers'[h].response = AloneEnvelope(handlers'[h])

C21_RequestsIndependent == [][C21_Step]_vars

\* two requests answered, the first of which embedded the facts that had no vector
C21_Witness ==
    /\ handlers["a"].pc = "done"
    /\ handlers["b"].pc = "done"
    /\ handlers["a"].response.status = 200
    /\ handlers["b"].response.mode = "legal-llm"
    /\ \E k \in 1..Len(handlers["a"].calls) : handlers["a"].calls[k] = "embed-fact"
    /\ \A k \in 1..Len(handlers["b"].calls) : handlers["b"].calls[k] # "embed-fact"

\* C22 as stated: when credentials are configured and the SDK path gave no answer,
\* call_llm does not return before it has posted at least the first candidate body to
\* the configured endpoint URL, whatever that URL is.
C22_ManualPathReached ==
    LET cfg == get_gemini_config(env) IN
    ( /\ pc = "llm_return"
      /\ provider = << "gemini" >>
      /\ ~NotConfigured(cfg)
      /\ llm_res.source # "llm:gemini-sdk" )
    => /\ http # <<>>
       /\ http[1].phase = "primary"
       /\ http[1].url = cfg.api_url

Verbs == { GenerateContent, Generate, GenerateText }
Versions == { V1Beta, V1Beta2, V1 }

EndsWith(url, suffix) ==
    /\ Len(url) >= Len(suffix)
    /\ SubSeq(url, Len(url) - Len(suffix) + 1, Len(url)) = suffix

EndsInVerb(url) == \E v \in Verbs : EndsWith(url, v)

\* the URLs that are url with its verb suffix replaced by another known verb, or with
\* its version segment replaced by another known version
OneSubstitution(url) ==
    UNION { { SubSeq(url, 1, Len(url) - Len(v)) \o v2 : v2 \in Verbs \ { v } } :
              v \in { w \in Verbs : EndsWith(url, w) } }
    \cup UNION { { Replace(url, ver, ver2) : ver2 \in Versions \ { ver } } :
                   ver \in { w \in Versions : Contains(url, w) } }

\* C23 as stated: every fallback URL call_llm attempts is the configured endpoint URL
\* with exactly one substitution, of its verb suffix by another of the three known verbs
\* or of its version segment by another of the three known versions; so it ends in a
\* known verb, differs from the configured URL, and is not attempted twice.
C23_FallbackUrlsWellFormed ==
    LET url == get_gemini_config(env).api_url
        tried == SelectSeq(http, LAMBDA h : h.phase = "fallback")
    IN  \A k \in 1..Len(tried) :
            /\ tried[k].url \in OneSubstitution(url)
            /\ EndsInVerb(tried[k].url)
            /\ tried[k].url # url
            /\ \A j \in 1..(k - 1) : tried[j].url # tried[k].url

\* x[k] for a dict x, None for anything else and for a missing key
Field(x, k) == IF IsDict(x) THEN Get(x, k) ELSE PyNone

\* x[0] for a non-empty list x, None for anything else
First(x) == IF IsList(x) /\ x.items # <<>> THEN x.items[1] ELSE PyNone

\* the extractions in the stated order of priority
Priorities(data) ==
    << Field(First(Field(data, "candidates")), "content"),
       Field(First(Field(data, "candidates")), "output"),
       Field(First(Field(First(Field(data, "output")), "content")), "text"),
       Field(data, "text"),
       Field(data, "output"),
       Field(data, "content"),
       Field(data, "message"),
       Field(data, "text") >>

\* the first non-empty value of the list, the stringified body when there is none
FirstNonEmpty(data) ==
    LET p == Priorities(data)
        hits == { k \in 1..Len(p) : Truthy(p[k]) }
    IN  IF hits = {} THEN PyRepr(data)
        ELSE p[CHOOSE k \in hits : \A j \in hits : k <= j]

\* C24 as stated: both parsers return the first non-empty value among
\* candidates[0].content, candidates[0].output, output[0].content[0].text, text, and then
\* the generic fields output, content, message, text: a field of higher priority that
\* is present but yields nothing does not stop the extractions after it.
C24_ParsingPriority ==
    applied.fn = "parse" =>
        /\ ~applied.primary.raised
        /\ applied.primary.answer = FirstNonEmpty(applied.data)
        /\ ~applied.fallback.raised
        /\ applied.fallback.answer = FirstNonEmpty(applied.data)

\* how often the current request called a collaborator
Count(event) == Cardinality({ k \in 1..Len(calls) : calls[k] = event })

\* C25: in every request the 0.70 search comes right after the embedding and before any
\* classification, vector-store query or LLM call; when it matches, the handler returns
\* at once and the request classifies nothing, queries nothing and calls no LLM; a
\* question that is not legal never queries the vector store; and a request makes at
\* most one vector-store query and at most one LLM call.
C25_ShortCircuitFirst ==
    /\ Len(calls) >= 1 => calls[1] = "embed"
    /\ Len(calls) >= 2 => calls[2] = "search70"
    /\ Count("search70") <= 1
    /\ ( /\ Count("search70") = 1
         /\ \E i \in 1..NumFacts : ScoreAtLeast(FactScore(i), HighThresholdPct) )
       => /\ calls = << "embed", "search70" >>
          /\ pc = "done"
          /\ response.status = 200
          /\ response.mode = "retrieved"
          /\ http = <<>>
    /\ (question # <<>> /\ ~is_legal_question(question)) => Count("qdrant") = 0
    /\ Count("qdrant") <= 1
    /\ Count("llm") <= 1

\* a legal question that matched at 0.70: answered without classifier, store or LLM
C25_Witness ==
    /\ pc = "done"
    /\ is_legal_question(question)
    /\ response.mode = "retrieved"
    /\ calls = << "embed", "search70" >>

====
